---- MODULE Spec2Model ----
(***************************************************************************)
(* Model of src/merkletree.py: class MerkleTree.                           *)
(*                                                                         *)
(* Python values are modelled as follows.                                  *)
(*   - an input item is a natural number (a Python int);                   *)
(*   - a digest is a character string, i.e. a sequence of character codes  *)
(*     (0..9 are the decimal digits, LParen and RParen two more codes);    *)
(*   - a __Node object is an entry of the heap `nodes`, identified by its  *)
(*     index; the reference None to a node is NoneNode;                    *)
(*   - the Python value None passed as an argument is NoneValue.           *)
(***************************************************************************)
EXTENDS Integers, Sequences, FiniteSets, TLC

\* ------------------------------------------------------------------ bounds
\* longest input collection given to the constructor
MaxLen == 6

\* ------------------------------------------------------------- value model
NoneNode == 0
NoneValue == -1
LParen == 10
RParen == 11

\* the items a collection is drawn from (Python ints)
Items == {1, 2, 12}

\* the arguments a query is called with
Values == Items \cup {NoneValue}

\* the indent arguments dump is called with
Indents == {0, 2}

\* the digest delegates a tree is constructed with:
\*   "str"   the default delegate, lambda x: str(x)
\*   "paren" a collision-free delegate, lambda x: '(' + str(x) + ')'
Delegates == {"str", "paren"}

RECURSIVE str(_)
\* Python's str() of a non-negative int: its decimal digits
str(x) ==
  IF x < 10 THEN <<x>> ELSE Append(str(x \div 10), x % 10)

\* the digest delegate d applied to a string s (str() of a string is s)
digest(d, s) ==
  IF d = "str" THEN s ELSE <<LParen>> \o s \o <<RParen>>

\* the digest delegate d applied to an input item x (an int)
digest_item(d, x) ==
  digest(d, str(x))

\* __Node(item, left, right)
Node(item, left, right) ==
  [value |-> item, left |-> left, right |-> right]

\* all collections of at most MaxLen items
Collections ==
  UNION {[1..n -> Items] : n \in 0..MaxLen}

\* ------------------------------------------------------------ Tree Builder
\* a slip in line 91: the two child values concatenated right then left
parent_digest_swapped(d, left_value, right_value) ==
  digest(d, right_value \o left_value)

\* line 91: self.digest(collection[i].value + collection[i+1].value)
parent_digest(d, left_value, right_value) ==
  digest(d, left_value \o right_value)

RECURSIVE __build_root(_, _, _, _)
\* __build_root(collection): heap holds every __Node created so far,
\* collection the (indices of the) nodes of the current level, levels the
\* collection argument of every call made so far, this one included
__build_root(heap, collection, levels, d) ==
  LET size == Len(collection)
  IN  IF size = 1
      THEN [nodes |-> heap, root |-> collection[1], levels |-> levels]
      ELSE
        LET last == heap[collection[size]]
            \* line 87-88: a copy of the last node is appended when size is even
            heap1 == IF size % 2 = 0
                     THEN Append(heap, Node(last.value, last.left, last.right))
                     ELSE heap
            collection1 == IF size % 2 = 0
                           THEN Append(collection, Len(heap) + 1)
                           ELSE collection
            \* line 90: range(0, size - 1, 2) has ceil((size - 1) / 2) elements,
            \* size being the length before the append
            count == ((size - 1) + 1) \div 2
            \* line 91-93: the j-th pass of the loop has i = 2 * (j - 1)
            parent(j) ==
              LET l == collection1[2 * (j - 1) + 1]
                  r == collection1[2 * (j - 1) + 2]
              IN  Node(parent_digest(d, heap1[l].value, heap1[r].value), l, r)
            heap2 == heap1 \o [j \in 1..count |-> parent(j)]
            next_level == [j \in 1..count |-> Len(heap1) + j]
        IN  __build_root(heap2, next_level, Append(levels, next_level), d)

\* a slip in line 77: an empty collection yields no root instead of raising
build_root_no_assert(iterable, d) ==
  IF Len(iterable) = 0
  THEN [raised |-> FALSE, nodes |-> <<>>, root |-> NoneNode, levels |-> <<>>]
  ELSE
    LET padded == IF Len(iterable) % 2 # 0
                  THEN Append(iterable, iterable[Len(iterable)])
                  ELSE iterable
        leaves == [i \in 1..Len(padded) |->
                     Node(digest_item(d, padded[i]), NoneNode, NoneNode)]
        level == [i \in 1..Len(padded) |-> i]
        built == __build_root(leaves, level, <<level>>, d)
    IN  [raised |-> FALSE, nodes |-> built.nodes, root |-> built.root,
         levels |-> built.levels]

\* build_root(iterable): raised is TRUE when the assertion of line 77 fails
build_root(iterable, d) ==
  IF Len(iterable) = 0
  THEN [raised |-> TRUE, nodes |-> <<>>, root |-> NoneNode, levels |-> <<>>]
  ELSE
    LET padded == IF Len(iterable) % 2 # 0
                  THEN Append(iterable, iterable[Len(iterable)])
                  ELSE iterable
        leaves == [i \in 1..Len(padded) |->
                     Node(digest_item(d, padded[i]), NoneNode, NoneNode)]
        level == [i \in 1..Len(padded) |-> i]
        built == __build_root(leaves, level, <<level>>, d)
    IN  [raised |-> FALSE, nodes |-> built.nodes, root |-> built.root,
         levels |-> built.levels]

\* ------------------------------------------------------------------ Locator
RECURSIVE __find_left_only(_, _, _)
\* a slip in line 137: the right subtree is never searched
__find_left_only(heap, node, value) ==
  IF node = NoneNode THEN NoneNode
  ELSE IF heap[node].value = value THEN node
  ELSE __find_left_only(heap, heap[node].left, value)

RECURSIVE __find(_, _, _)
\* __find(node, value): the first node, left-first and depth-first, whose
\* value is value, or None
__find(heap, node, value) ==
  IF node = NoneNode THEN NoneNode
  ELSE IF heap[node].value = value THEN node
  ELSE LET l == __find(heap, heap[node].left, value)
       IN  IF l # NoneNode THEN l ELSE __find(heap, heap[node].right, value)

RECURSIVE __print(_, _, _)
\* __print(node, indent): the lines printed, each <<indent, value>>
__print(heap, node, indent) ==
  IF node = NoneNode THEN <<>>
  ELSE <<<<indent, heap[node].value>>>>
         \o __print(heap, heap[node].left, indent + 2)
         \o __print(heap, heap[node].right, indent + 2)

\* -------------------------------------------------------------------- state
VARIABLES
  iterable,   \* the collection the constructor is called with
  delegate,   \* the digest delegate the constructor is called with
  phase,      \* "new", "built", or "failed" when __init__ raised
  nodes,      \* the heap of __Node objects
  root,       \* self.__root, NoneNode while there is no tree
  levels,     \* the collection argument of every __build_root call
  ret         \* the last call on the tree and what it returned or raised

vars == <<iterable, delegate, phase, nodes, root, levels, ret>>

NoCall == [op |-> "none", arg |-> NoneValue, raised |-> "none", val |-> <<>>]

Init ==
  /\ iterable \in Collections
  /\ delegate \in Delegates
  /\ phase = "new"
  /\ nodes = <<>>
  /\ root = NoneNode
  /\ levels = <<>>
  /\ ret = NoCall

\* MerkleTree(iterable, digest_delegate)
__init__ ==
  /\ phase = "new"
  /\ LET built == build_root(iterable, delegate)
     IN  /\ phase' = IF built.raised THEN "failed" ELSE "built"
         /\ nodes' = built.nodes
         /\ root' = built.root
         /\ levels' = built.levels
  /\ UNCHANGED <<iterable, delegate, ret>>

\* a slip in contains: the hashed value is stored through the value setter
\* of lines 35-37 into the root
contains_writes_root(value) ==
  /\ phase = "built"
  /\ value # NoneValue
  /\ ret' = [op |-> "contains", arg |-> value, raised |-> "none",
             val |-> __find(nodes, root, digest_item(delegate, value))
                       # NoneNode]
  /\ nodes' = [nodes EXCEPT ![root].value = digest_item(delegate, value)]
  /\ UNCHANGED <<iterable, delegate, phase, root, levels>>

\* tree.contains(value)
contains(value) ==
  /\ phase = "built"
  /\ ret' = [op |-> "contains", arg |-> value, raised |-> "none",
             val |-> IF value = NoneValue \/ root = NoneNode
                     THEN FALSE
                     ELSE __find(nodes, root, digest_item(delegate, value))
                            # NoneNode]
  /\ UNCHANGED <<iterable, delegate, phase, nodes, root, levels>>

\* a slip in lines 142-143: an absent value yields an empty proof
request_proof_no_raise(value) ==
  /\ phase = "built"
  /\ LET hashed_value == digest_item(delegate, value)
     IN  ret' = [op |-> "request_proof", arg |-> value,
                 raised |-> IF __find(nodes, root, hashed_value) = NoneNode
                            THEN "none"
                            ELSE "AttributeError",
                 val |-> <<>>]
  /\ UNCHANGED <<iterable, delegate, phase, nodes, root, levels>>

\* tree.request_proof(value): line 146 calls a method the class does not
\* define, so that every call that passes line 142 raises AttributeError
request_proof(value) ==
  /\ phase = "built"
  /\ LET hashed_value == digest_item(delegate, value)
     IN  ret' = [op |-> "request_proof", arg |-> value,
                 raised |-> IF __find(nodes, root, hashed_value) = NoneNode
                            THEN "Exception"
                            ELSE "AttributeError",
                 val |-> <<>>]
  /\ UNCHANGED <<iterable, delegate, phase, nodes, root, levels>>

\* tree.dump(indent)
dump(indent) ==
  /\ phase = "built"
  /\ ret' = [op |-> "dump", arg |-> indent, raised |-> "none",
             val |-> IF root = NoneNode THEN <<>>
                     ELSE __print(nodes, root, indent)]
  /\ UNCHANGED <<iterable, delegate, phase, nodes, root, levels>>

\* value in tree
__contains__(value) ==
  /\ phase = "built"
  /\ ret' = [op |-> "__contains__", arg |-> value, raised |-> "none",
             val |-> __find(nodes, root, digest_item(delegate, value))
                       # NoneNode]
  /\ UNCHANGED <<iterable, delegate, phase, nodes, root, levels>>

Next ==
  \/ __init__
  \/ \E value \in Values : contains(value)
  \/ \E value \in Items : request_proof(value)
  \/ \E indent \in Indents : dump(indent)
  \/ \E value \in Items : __contains__(value)

Spec == Init /\ [][Next]_vars

TypeOK ==
  /\ phase \in {"new", "built", "failed"}
  /\ root \in 0..Len(nodes)

\* ------------------------------------------------- notions the claims use
\* the items of a collection
Range(seq) ==
  {seq[i] : i \in 1..Len(seq)}

RECURSIVE Subtree(_, _)
\* the nodes reachable from node through the child links
Subtree(heap, node) ==
  IF node = NoneNode THEN {}
  ELSE {node} \cup Subtree(heap, heap[node].left)
              \cup Subtree(heap, heap[node].right)

\* the digests held by the nodes of the tree
TreeDigests ==
  {nodes[n].value : n \in Subtree(nodes, root)}

RECURSIVE RefFold(_, _)
\* the reference fold of a level of digests: a level of more than one digest
\* is padded with its last digest when odd, then folded pairwise
RefFold(d, level) ==
  IF Len(level) = 1 THEN level[1]
  ELSE LET padded == IF Len(level) % 2 # 0
                     THEN Append(level, level[Len(level)])
                     ELSE level
       IN  RefFold(d, [j \in 1..(Len(padded) \div 2) |->
                         digest(d, padded[2 * j - 1] \o padded[2 * j])])

\* the reference root digest of a non-empty collection
RefRoot(d, collection) ==
  RefFold(d, [i \in 1..Len(collection) |-> digest_item(d, collection[i])])

RECURSIVE Verify(_, _, _)
\* the fold of a leaf digest with the entries <<side, sibling>> of a proof
Verify(d, acc, proof) ==
  IF Len(proof) = 0 THEN acc
  ELSE Verify(d,
              IF proof[1][1] = "Left"
              THEN digest(d, proof[1][2] \o acc)
              ELSE digest(d, acc \o proof[1][2]),
              Tail(proof))

\* ------------------------------------------------------------------ claims

\* C1: every item x of the collection is reported as a member: contains(x)
\* returns True.
C1_MembersContained ==
  (ret.op = "contains" /\ ret.arg \in Range(iterable)) => ret.val = TRUE

\* C2: with the collision-free delegate, replacing any one item of the
\* collection by an item with a different digest and rebuilding yields a
\* different root digest.
C2_RootCommits ==
  (phase = "built" /\ delegate = "paren") =>
    \A i \in 1..Len(iterable) : \A y \in Items :
      digest_item(delegate, y) # digest_item(delegate, iterable[i]) =>
        LET rebuilt == build_root([iterable EXCEPT ![i] = y], delegate)
        IN  rebuilt.nodes[rebuilt.root].value # nodes[root].value

\* C3: request_proof(x) for an item x of the collection returns a proof, and
\* folding D(x) with the proof's entries in order yields the root digest.
C3_ProofVerifies ==
  (ret.op = "request_proof" /\ ret.arg \in Range(iterable)) =>
    /\ ret.raised = "none"
    /\ Verify(delegate, digest_item(delegate, ret.arg), ret.val)
         = nodes[root].value

\* C4 as stated: contains(y) returns False for every y whose digest differs
\* from the digest of every item of the collection, also when it equals the
\* digest of an internal node.
C4_NonMemberNotContained ==
  ( /\ ret.op = "contains"
    /\ ret.arg # NoneValue
    /\ \A i \in 1..Len(iterable) :
         digest_item(delegate, ret.arg) # digest_item(delegate, iterable[i]) )
  => ret.val = FALSE

\* C4 as amended: contains(y) returns False for every y whose digest differs
\* from the digest of every node of the tree, leaf or internal, and True for
\* every y (other than None) whose digest is the digest of some node of the
\* tree, an internal node or the root included.
C4_ContainsIffSomeNodeDigest ==
  (ret.op = "contains" /\ ret.arg # NoneValue) =>
    (ret.val = (digest_item(delegate, ret.arg) \in TreeDigests))

\* C4: contains was called with a value that is no item of a collection of
\* three items or more, whose digest no node holds, and returned False
C4_Witness ==
  /\ ret.op = "contains"
  /\ ret.arg # NoneValue
  /\ ret.arg \notin Range(iterable)
  /\ Len(iterable) >= 3
  /\ digest_item(delegate, ret.arg) \notin TreeDigests
  /\ ret.val = FALSE

\* C5: for a collection of exactly one item s the root is a leaf whose digest
\* is D(s).
C5_SingleItemRootIsLeaf ==
  (phase = "built" /\ Len(iterable) = 1) =>
    /\ nodes[root].left = NoneNode
    /\ nodes[root].right = NoneNode
    /\ nodes[root].value = digest_item(delegate, iterable[1])

\* C6: every level of n > 1 nodes produces ceil(n/2) parents, every node of a
\* level is a child of a node of the next level, and the root digest of a
\* collection of more than one item is the reference fold.
C6_EveryLevelPaired ==
  phase = "built" =>
    /\ \A k \in 1..(Len(levels) - 1) :
         /\ Len(levels[k + 1]) = (Len(levels[k]) + 1) \div 2
         /\ \A m \in 1..Len(levels[k]) :
              \E p \in 1..Len(levels[k + 1]) :
                \/ nodes[levels[k + 1][p]].left = levels[k][m]
                \/ nodes[levels[k + 1][p]].right = levels[k][m]
    /\ Len(iterable) > 1 => nodes[root].value = RefRoot(delegate, iterable)

\* C7: construction from an empty collection fails before any node is
\* created and leaves no root; construction from a non-empty collection
\* succeeds with a root that is not None.
C7_EmptyFailsNonEmptyBuilds ==
  phase # "new" =>
    IF Len(iterable) = 0
    THEN phase = "failed" /\ root = NoneNode /\ nodes = <<>>
    ELSE phase = "built" /\ root # NoneNode /\ root \in 1..Len(nodes)

\* C7: the constructor was called with the empty collection and raised
C7_Witness ==
  phase = "failed" /\ iterable = <<>>

\* C8: request_proof for a value whose digest no node of the tree holds
\* raises the not-found exception and returns no proof.
C8_AbsentDigestRaises ==
  ( /\ ret.op = "request_proof"
    /\ digest_item(delegate, ret.arg) \notin TreeDigests )
  => (ret.raised = "Exception" /\ ret.val = <<>>)

\* C8: request_proof was called with a value no node holds the digest of
C8_Witness ==
  /\ ret.op = "request_proof"
  /\ digest_item(delegate, ret.arg) \notin TreeDigests
  /\ ret.raised = "Exception"

\* C9: once the tree is built, no call changes the root or the value or the
\* child links of any node.
C9_QueriesLeaveTreeUnchanged ==
  [][phase = "built" => (phase' = "built" /\ root' = root /\ nodes' = nodes)]_vars

\* C9: a query has been answered on a tree that has internal nodes
C9_Witness ==
  /\ phase = "built"
  /\ ret.op \in {"contains", "request_proof", "dump"}
  /\ Cardinality(Subtree(nodes, root)) >= 7

\* C10: every node of the tree is a leaf holding the digest of an item of the
\* collection, or has both children and holds the digest of its left child's
\* value followed by its right child's value.
C10_NodeShape ==
  phase = "built" =>
    \A n \in Subtree(nodes, root) :
      \/ /\ nodes[n].left = NoneNode
         /\ nodes[n].right = NoneNode
         /\ \E i \in 1..Len(iterable) :
              nodes[n].value = digest_item(delegate, iterable[i])
      \/ /\ nodes[n].left # NoneNode
         /\ nodes[n].right # NoneNode
         /\ nodes[n].value
              = digest(delegate,
                       nodes[nodes[n].left].value \o nodes[nodes[n].right].value)

\* C10: a tree of two fold levels has been built from distinct items
C10_Witness ==
  /\ phase = "built"
  /\ Cardinality(Range(iterable)) >= 3
  /\ Cardinality(Subtree(nodes, root)) >= 7

====
